---------------------------- MODULE Spec2Model ----------------------------
(***************************************************************************)
(* A model of the Splitter front end (split-proj/src): the line cleaner    *)
(* and the amount summation of App.jsx, the payment-type aggregation of    *)
(* Summary.jsx and the currency formatters of DataTable.jsx and            *)
(* Summary.jsx.                                                            *)
(*                                                                         *)
(* JavaScript strings are sequences of one-character strings.  A           *)
(* JavaScript value that may be null, a number or a string is a record     *)
(* with a tag t.  Decimal numbers are exact: a parsed number is a sign,    *)
(* an integer part and a fraction in units of 1/10000.                     *)
(***************************************************************************)
EXTENDS Integers, Sequences, FiniteSets, TLC

VARIABLES
    pc,             \* the step the component under study has reached
    line,           \* cleanLineContent: its argument
    cleaned,        \* cleanLineContent(line)
    recleaned,      \* cleanLineContent(cleaned)
    contents,       \* calculateTotalAmount: its argument
    matches,        \* per line, the spans line.match(amountRegex) returned
    extracted,      \* the roundedAmount values added to total, in order (cents)
    total,          \* calculateTotalAmount(contents), in cents
    entries,        \* PaymentSummaryTable: its entries prop
    selectedModel,  \* PaymentSummaryTable: the payment model chosen in the select
    paymentTotals,  \* PaymentSummaryTable: the memo {items, grandTotal}
    summary,        \* DataTable: the memo {totalRows, amountCount, totalAmount} or null
    amount,         \* formatAmount: its argument
    tableText,      \* formatAmount(amount) of DataTable.jsx
    summaryText,    \* formatAmount(amount) of Summary.jsx
    isAmountValue,  \* isAmount(amount) of DataTable.jsx
    searchTerm,           \* App: the text of the search box
    debouncedSearchTerm,  \* App: useDebounce(searchTerm, 300)
    isSearching,          \* App: the 'Searching...' indicator
    timer,                \* useDebounce: the pending timeouts, {value, remaining}
    quiet,                \* time since the search box last changed, up to the delay
    burst,                \* changes of the search box in the current burst of edits
    setCalls,             \* calls of setDebouncedValue since the search box last changed
    uploadedFile,         \* App: the file last selected (0: none; files are numbered as selected)
    uploadStatus,         \* App: 'idle', 'uploading', 'processing', 'completed' or 'error'
    processingId,         \* App: the processing id last received (0: null)
    processedData,        \* App: the processing id its value came from (0: null)
    rawContents,          \* App: the processing id its value came from (0: null)
    separator,            \* App: the processing id its value came from (0: null)
    error,                \* App: the message shown, or null
    generatingReport,     \* App: a report is being generated
    uploadRequests,       \* POST /api/upload-file in flight: the files
    statusRequests,       \* GET /api/processing-status/id in flight: how many per id
    pollTimers,           \* the pending timeouts of pollProcessingStatus
    reportRequests,       \* POST /api/generate-report in flight: the request data
    answers,              \* per id, the answers so far that told of work in progress
    closed,               \* the ids whose polling has met a final or failed response
    event,                \* the response or timeout handled last
    reportProgress,       \* the percentage shown while a report is generated
    tableData,            \* DataTable: its data prop
    tableSearchTerm,      \* DataTable: searchTerm, the text of its search box
    currentPage           \* DataTable: the page shown

vars == <<pc, line, cleaned, recleaned, contents, matches, extracted, total,
          entries, selectedModel, paymentTotals, summary, amount, tableText, summaryText, isAmountValue,
          searchTerm, debouncedSearchTerm, isSearching, timer, quiet, burst, setCalls,
          uploadedFile, uploadStatus, processingId, processedData, rawContents, separator,
          error, generatingReport, uploadRequests, statusRequests, pollTimers,
          reportRequests, answers, closed, event, reportProgress,
          tableData, tableSearchTerm, currentPage>>

cleanVars == <<line, cleaned, recleaned>>

amountVars == <<contents, matches, extracted, total>>

summaryVars == <<entries, selectedModel, paymentTotals, summary>>

formatVars == <<amount, tableText, summaryText, isAmountValue>>

searchVars == <<searchTerm, debouncedSearchTerm, isSearching, timer, quiet, burst, setCalls>>

uploadVars == <<uploadedFile, uploadStatus, processingId, processedData, rawContents, separator,
                error, generatingReport, uploadRequests, statusRequests, pollTimers,
                reportRequests, answers, closed, event, reportProgress>>

tableVars == <<tableData, tableSearchTerm, currentPage>>

appVars == <<searchVars, uploadVars, tableVars>>

pureVars == <<cleanVars, amountVars, summaryVars, formatVars>>

(***************************************************************************)
(* Bounds of the model.                                                    *)
(***************************************************************************)
MaxLineLen == 4

\* The fragments a text (of the amount summation, of an amount to format)
\* is put together from.
MaxFragments == 3

\* The entries handed to the payment summary.
MaxEntries == 3

\* The changes of the search box in one burst of edits.
MaxBurst == 3

\* The files selected for upload.
MaxFiles == 2

\* The answers to the status requests of one id that tell of work in progress.
MaxPolls == 1

\* The full pages of rows of one kind in the data of the table.
MaxFullPages == 2

(***************************************************************************)
(* JavaScript values.                                                      *)
(***************************************************************************)
JsNull == [t |-> "null"]

JsStr(s) == [t |-> "str", s |-> s]

\* An array (of lines, of entries).
JsArr(a) == [t |-> "arr", a |-> a]

\* A truthy value that is not an array.
JsObj == [t |-> "obj"]

\* A number: a decimal d, see the numbers below.
JsNum(d) == [t |-> "num", n |-> d]

\* All sequences over alphabet of length at most n.
RECURSIVE SeqsUpTo(_, _)
SeqsUpTo(alphabet, n) ==
    IF n = 0 THEN {<<>>}
    ELSE LET shorter == SeqsUpTo(alphabet, n - 1)
         IN  shorter \cup {Append(s, c) : s \in {x \in shorter : Len(x) = n - 1}, c \in alphabet}

(***************************************************************************)
(* Character classes of the regular expressions.                           *)
(***************************************************************************)
\* \s of a JavaScript regular expression, and what String.prototype.trim strips.
IsWhitespace(c) == c \in {" ", "\t", "\n", "\r"}

\* \d
IsDigit(c) == c \in {"0", "1", "2", "3", "4", "5", "6", "7", "8", "9"}

\* \w: a letter, a digit or the underscore.
IsWordChar(c) == IsDigit(c) \/ c \in {"a", "b", "x", "y", "z", "A", "B", "X", "P", "_"}

(***************************************************************************)
(* cleanLineContent (App.jsx).                                             *)
(***************************************************************************)
\* s.replace(/c/g, r) for a single character c.
ReplaceChar(s, c, r) == [i \in 1..Len(s) |-> IF s[i] = c THEN r ELSE s[i]]

\* s.replace(/\s+/g, ' '): each maximal run of whitespace becomes one space.
CollapseWhitespace(s) ==
    LET marked == [i \in 1..Len(s) |->
                      IF IsWhitespace(s[i])
                      THEN IF i > 1 /\ IsWhitespace(s[i - 1]) THEN "" ELSE " "
                      ELSE s[i]]
    IN  SelectSeq(marked, LAMBDA c : c # "")

RECURSIVE TrimStart(_)
TrimStart(s) ==
    IF s # <<>> /\ IsWhitespace(Head(s)) THEN TrimStart(Tail(s)) ELSE s

RECURSIVE TrimEnd(_)
TrimEnd(s) ==
    IF s # <<>> /\ IsWhitespace(s[Len(s)]) THEN TrimEnd(SubSeq(s, 1, Len(s) - 1)) ELSE s

\* s.trim()
Trim(s) == TrimEnd(TrimStart(s))

\* A mutant of cleanLineContent: whitespace is collapsed before the
\* separators are replaced, so a separator next to a space leaves two spaces.
cleanLineContent_CollapseFirst(l) ==
    IF l.t = "null" \/ l.s = <<>> THEN <<>>
    ELSE Trim(ReplaceChar(ReplaceChar(ReplaceChar(CollapseWhitespace(l.s), "|", " "), "^", " "), ",", " "))

\* A mutant of cleanLineContent: the separators are deleted, not replaced by
\* a space, so the fields they separate run together.
cleanLineContent_DropSeparators(l) ==
    IF l.t = "null" \/ l.s = <<>> THEN <<>>
    ELSE Trim(CollapseWhitespace(SelectSeq(l.s, LAMBDA c : c \notin {"|", "^", ","})))

\* cleanLineContent(line): '' for a falsy line (null, undefined, ''), else
\* the three replacements, the collapse and the trim, in this order.
cleanLineContent(l) ==
    IF l.t = "null" \/ l.s = <<>> THEN <<>>
    ELSE Trim(CollapseWhitespace(
             ReplaceChar(ReplaceChar(ReplaceChar(l.s, "|", " "), "^", " "), ",", " ")))

(***************************************************************************)
(* Numbers.  parseFloat(s) is NaN or a decimal: a sign, an integer part    *)
(* and a fraction in units of 1/10000 (the texts of the model carry at     *)
(* most four fractional digits; further digits would be cut).  An integer  *)
(* part of 10^9 or more is kept as 10^9: the code only compares it.        *)
(***************************************************************************)
NaN == [nan |-> TRUE, neg |-> FALSE, int |-> 0, frac |-> 0]

Dec(neg, int, frac) == [nan |-> FALSE, neg |-> neg, int |-> int, frac |-> frac]

DigitValue(c) ==
    CASE c = "0" -> 0 [] c = "1" -> 1 [] c = "2" -> 2 [] c = "3" -> 3 [] c = "4" -> 4
      [] c = "5" -> 5 [] c = "6" -> 6 [] c = "7" -> 7 [] c = "8" -> 8 [] c = "9" -> 9

\* The last index of the run of digits that starts at i (i - 1 when s[i] is no digit).
RECURSIVE DigitRunEnd(_, _)
DigitRunEnd(s, i) ==
    IF i <= Len(s) /\ IsDigit(s[i]) THEN DigitRunEnd(s, i + 1) ELSE i - 1

RECURSIVE DigitsToNat(_, _)
DigitsToNat(ds, acc) ==
    IF ds = <<>> THEN acc
    ELSE IF acc >= 100000000 THEN 1000000000
    ELSE DigitsToNat(Tail(ds), acc * 10 + DigitValue(Head(ds)))

\* The fraction digits fs as a count of 1/10000.
FractionUnits(fs) ==
    LET d(k) == IF k <= Len(fs) THEN DigitValue(fs[k]) ELSE 0
    IN  d(1) * 1000 + d(2) * 100 + d(3) * 10 + d(4)

\* parseFloat(s): leading whitespace is skipped, then the longest prefix
\* sign? digits [. digits] or sign? . digits is read; NaN when there is none.
ParseFloat(s) ==
    LET u      == TrimStart(s)
        signed == u # <<>> /\ Head(u) \in {"-", "+"}
        neg    == u # <<>> /\ Head(u) = "-"
        b      == IF signed THEN 2 ELSE 1
        ie     == DigitRunEnd(u, b)
        hasDot == ie + 1 <= Len(u) /\ u[ie + 1] = "."
        fe     == IF hasDot THEN DigitRunEnd(u, ie + 2) ELSE ie
        ints   == SubSeq(u, b, ie)
        fracs  == IF hasDot THEN SubSeq(u, ie + 2, fe) ELSE <<>>
    IN  IF ints = <<>> /\ fracs = <<>> THEN NaN
        ELSE Dec(neg, DigitsToNat(ints, 0), FractionUnits(fracs))

(***************************************************************************)
(* calculateTotalAmount (App.jsx): the amount extractor and its sum.       *)
(***************************************************************************)
\* amount < 1000000 of the range test.
AmountLimit == 1000000

\* \b at position p, between s[p - 1] and s[p]: exactly one side is a word character.
WordBoundary(s, p) ==
    LET word(k) == k >= 1 /\ k <= Len(s) /\ IsWordChar(s[k])
    IN  word(p - 1) # word(p)

\* The ways /\b\d+\.\d{1,4}\b/ matches s from index i: <<j, m>> when \d+
\* takes s[i..j], \. takes s[j + 1] and \d{1,4} takes s[j + 2..m].
RegexMatchesAt(s, i) ==
    IF ~WordBoundary(s, i) THEN {}
    ELSE {jm \in {<<j, m>> : j \in i..DigitRunEnd(s, i), m \in 1..Len(s)} :
             /\ jm[1] + 1 <= Len(s)
             /\ s[jm[1] + 1] = "."
             /\ jm[2] >= jm[1] + 2
             /\ jm[2] <= jm[1] + 5
             /\ jm[2] <= DigitRunEnd(s, jm[1] + 2)
             /\ WordBoundary(s, jm[2] + 1)}

\* A mutant of RegexMatchEnd: the closing \b is missing, so the first four
\* of five fractional digits, or digits followed by a letter, match.
RegexMatchEnd_NoClosingBoundary(s, i) ==
    LET all == IF ~WordBoundary(s, i) THEN {}
               ELSE {jm \in {<<j, m>> : j \in i..DigitRunEnd(s, i), m \in 1..Len(s)} :
                        /\ jm[1] + 1 <= Len(s)
                        /\ s[jm[1] + 1] = "."
                        /\ jm[2] >= jm[1] + 2
                        /\ jm[2] <= jm[1] + 5
                        /\ jm[2] <= DigitRunEnd(s, jm[1] + 2)}
    IN  IF all = {} THEN 0
        ELSE LET j == CHOOSE x \in {jm[1] : jm \in all} : \A y \in {jm[1] : jm \in all} : y <= x
                 ms == {jm[2] : jm \in {c \in all : c[1] = j}}
             IN  CHOOSE x \in ms : \A y \in ms : y <= x

\* The end of the match the regular expression finds at i, 0 when it finds
\* none: the quantifiers are greedy, so the longest \d+ that leads to a
\* match is taken and, for it, the longest \d{1,4}.
RegexMatchEnd(s, i) ==
    LET all == RegexMatchesAt(s, i)
    IN  IF all = {} THEN 0
        ELSE LET j == CHOOSE x \in {jm[1] : jm \in all} : \A y \in {jm[1] : jm \in all} : y <= x
                 ms == {jm[2] : jm \in {c \in all : c[1] = j}}
             IN  CHOOSE x \in ms : \A y \in ms : y <= x

\* line.match(amountRegex) with the g flag: the search starts at pos and
\* resumes right after each match.  The spans of the matches, in order (the
\* empty sequence stands for the null that match returns when there is none).
RECURSIVE MatchAllFrom(_, _)
MatchAllFrom(s, pos) ==
    IF pos > Len(s) THEN <<>>
    ELSE LET m == RegexMatchEnd(s, pos)
         IN  IF m = 0 THEN MatchAllFrom(s, pos + 1)
             ELSE <<[from |-> pos, to |-> m]>> \o MatchAllFrom(s, m + 1)

LineMatches(s) == MatchAllFrom(s, 1)

\* A mutant of AmountAccepted: the upper limit is inclusive.
AmountAccepted_InclusiveLimit(n) ==
    /\ ~n.nan
    /\ ~n.neg /\ (n.int > 0 \/ n.frac > 0)
    /\ (n.int < AmountLimit \/ (n.int = AmountLimit /\ n.frac = 0))

\* !isNaN(amount) && amount > 0 && amount < 1000000
AmountAccepted(n) ==
    /\ ~n.nan
    /\ ~n.neg /\ (n.int > 0 \/ n.frac > 0)
    /\ n.int < AmountLimit

\* Math.round(amount * 100) / 100, in cents.  Math.round rounds a half up,
\* but amount * 100 is a binary floating-point product: for an amount that
\* lies exactly on a half cent it falls on the half (0.615 * 100 = 61.5) or
\* just below it (1.005 * 100 = 100.49999999999999), so either neighbour
\* can result.  Off the half the product is far from it and the result is
\* the nearest cent.
RoundedAmounts(n) ==
    LET down == n.int * 100 + (n.frac \div 100)
        rest == n.frac % 100
    IN  IF rest < 50 THEN {down}
        ELSE IF rest > 50 THEN {down + 1}
        ELSE {down, down + 1}

\* The accepted amounts of one line, in the order of the matches.
AcceptedOfLine(s) ==
    LET spans == LineMatches(s)
        nums  == [k \in 1..Len(spans) |-> ParseFloat(SubSeq(s, spans[k].from, spans[k].to))]
    IN  SelectSeq(nums, AmountAccepted)

RECURSIVE AcceptedOfLines(_)
AcceptedOfLines(ls) ==
    IF ls = <<>> THEN <<>> ELSE AcceptedOfLine(Head(ls)) \o AcceptedOfLines(Tail(ls))

\* Every sequence of rounded amounts the accepted amounts ns can give.
RECURSIVE RoundedSequences(_)
RoundedSequences(ns) ==
    IF ns = <<>> THEN {<<>>}
    ELSE {<<r>> \o rest : r \in RoundedAmounts(Head(ns)), rest \in RoundedSequences(Tail(ns))}

RECURSIVE Sum(_)
Sum(xs) == IF xs = <<>> THEN 0 ELSE Head(xs) + Sum(Tail(xs))

\* Math.round(total * 100) / 100 of the return statement: total is a sum of
\* whole cents up to floating-point noise, which the rounding removes.
RoundedTotal(cents) == cents

\* The text of the lines: s split at its line feeds.
RECURSIVE SplitLinesFrom(_, _, _)
SplitLinesFrom(s, i, cur) ==
    IF i > Len(s) THEN <<cur>>
    ELSE IF s[i] = "\n" THEN <<cur>> \o SplitLinesFrom(s, i + 1, <<>>)
    ELSE SplitLinesFrom(s, i + 1, Append(cur, s[i]))

RECURSIVE Concat(_)
Concat(ss) == IF ss = <<>> THEN <<>> ELSE Head(ss) \o Concat(Tail(ss))

\* The pieces of text the lines of the model are put together from.
AmountFragments ==
    { <<" ">>, <<"x">>, <<".">>, <<"7">>, <<"\n">>,
      <<"0", ".", "5">>,
      <<"1", "2", ".", "3", "4">>,
      <<"1", ".", "0", "0", "5">>,
      <<"1", ".", "2", "3", "4", "5">>,
      <<"0", ".", "0", "0">>,
      <<"9", "9", "9", "9", "9", "9", ".", "9", "9">>,
      <<"1", "0", "0", "0", "0", "0", "0", ".", "0", "0">> }

AmountInputs ==
    {JsNull, JsObj} \cup
    {JsArr(SplitLinesFrom(Concat(fs), 1, <<>>)) : fs \in SeqsUpTo(AmountFragments, MaxFragments)}

(***************************************************************************)
(* PaymentSummaryTable (Summary.jsx): the payment-type aggregation.        *)
(* An amount is a whole number of 1/10000.  A payment type is an atomic    *)
(* label; the totals object is the sequence of its keys' buckets in        *)
(* insertion order.                                                        *)
(***************************************************************************)
PAYMENT_MODELS ==
    << "All", "Bayad Center", "Bancnet", "BDO", "ECPay", "SM", "Eprime", "LBC",
       "Metrobank", "Cebuana", "PrimeTap", "AllEasy", "PNB", "UnionBank",
       "BDO-New", "Unknown" >>

\* The decimal d as a count of 1/10000.
Units(d) == (IF d.neg THEN -1 ELSE 1) * (d.int * 10000 + d.frac)

RECURSIVE NatToDigits(_)
NatToDigits(n) ==
    LET digit == <<"0", "1", "2", "3", "4", "5", "6", "7", "8", "9">>[(n % 10) + 1]
    IN  IF n < 10 THEN <<digit>> ELSE Append(NatToDigits(n \div 10), digit)

RECURSIVE DropTrailingZeros(_)
DropTrailingZeros(ds) ==
    IF ds # <<>> /\ ds[Len(ds)] = "0" THEN DropTrailingZeros(SubSeq(ds, 1, Len(ds) - 1)) ELSE ds

\* The four digits of a fraction given in units of 1/10000.
FractionToDigits(f) ==
    <<NatToDigits(f \div 1000)[1], NatToDigits((f \div 100) % 10)[1],
      NatToDigits((f \div 10) % 10)[1], NatToDigits(f % 10)[1]>>

\* Number.prototype.toString of a decimal.
NumberToString(d) ==
    IF d.nan THEN <<"N", "a", "N">>
    ELSE (IF d.neg /\ (d.int > 0 \/ d.frac > 0) THEN <<"-">> ELSE <<>>)
         \o NatToDigits(d.int)
         \o (IF d.frac = 0 THEN <<>> ELSE <<".">> \o DropTrailingZeros(FractionToDigits(d.frac)))

\* value.toString() of a number or a string.
JsToString(v) == IF v.t = "num" THEN NumberToString(v.n) ELSE v.s

\* s.replace(/[₱,]/g, '')
StripPesoAndCommas(s) == SelectSeq(s, LAMBDA c : c \notin {"₱", ","})

\* parseFloat(entry.amount?.toString().replace(/[₱,]/g, '')) || 0
\* For a null or undefined amount the chain gives undefined, and
\* parseFloat(undefined) is NaN.
EntryAmount(e) ==
    LET parsed == IF e.amount.t = "null" THEN NaN
                  ELSE ParseFloat(StripPesoAndCommas(JsToString(e.amount)))
    IN  IF parsed.nan THEN 0 ELSE Units(parsed)

\* entry.paymentType || 'Unknown'
EntryType(e) ==
    IF e.paymentType.t = "str" /\ e.paymentType.s # "" THEN e.paymentType.s ELSE "Unknown"

\* entry.paymentType === selectedModel
TypeIs(e, model) == e.paymentType.t = "str" /\ e.paymentType.s = model

\* selectedModel === 'All' ? entries : entries.filter(...)
FilteredEntries(es, model) ==
    IF model = "All" THEN es ELSE SelectSeq(es, LAMBDA e : TypeIs(e, model))

\* A mutant of AddEntry: the grand total takes the amount only when the
\* entry opens a new bucket.
AddEntry_GrandTotalOncePerBucket(acc, e) ==
    LET type   == EntryType(e)
        value  == EntryAmount(e)
        at     == {k \in 1..Len(acc.totals) : acc.totals[k].type = type}
        opened == IF at = {} THEN Append(acc.totals, [type |-> type, count |-> 0, amount |-> 0])
                  ELSE acc.totals
        k      == CHOOSE i \in 1..Len(opened) : opened[i].type = type
    IN  [totals |-> [opened EXCEPT ![k] = [type |-> type,
                                           count |-> @.count + 1,
                                           amount |-> @.amount + value]],
         grandTotal |-> IF at = {} THEN acc.grandTotal + value ELSE acc.grandTotal]

\* One turn of filteredEntries.forEach: the bucket of the entry's type is
\* opened when totals has none, then it and the grand total take the amount.
AddEntry(acc, e) ==
    LET type   == EntryType(e)
        value  == EntryAmount(e)
        at     == {k \in 1..Len(acc.totals) : acc.totals[k].type = type}
        opened == IF at = {} THEN Append(acc.totals, [type |-> type, count |-> 0, amount |-> 0])
                  ELSE acc.totals
        k      == CHOOSE i \in 1..Len(opened) : opened[i].type = type
    IN  [totals |-> [opened EXCEPT ![k] = [type |-> type,
                                           count |-> @.count + 1,
                                           amount |-> @.amount + value]],
         grandTotal |-> acc.grandTotal + value]

RECURSIVE AddEntries(_, _)
AddEntries(acc, es) ==
    IF es = <<>> THEN acc ELSE AddEntries(AddEntry(acc, Head(es)), Tail(es))

\* (value.amount / grandTotal) * 100.  The quotient of two numbers is NaN
\* for 0 / 0, an infinity for x / 0 and else the ratio; times 100 it stays
\* so.  A finite percentage is kept as the ratio num / den it is 100 times.
Percentage(bucketAmount, grandTotal) ==
    IF grandTotal = 0
    THEN IF bucketAmount = 0 THEN [k |-> "NaN", num |-> 0, den |-> 0]
         ELSE IF bucketAmount > 0 THEN [k |-> "Infinity", num |-> 0, den |-> 0]
         ELSE [k |-> "-Infinity", num |-> 0, den |-> 0]
    ELSE [k |-> "finite", num |-> bucketAmount, den |-> grandTotal]

\* Array.prototype.sort with (a, b) => b.amount - a.amount: descending by
\* amount; the sort is stable, so equal amounts keep their order.
RECURSIVE InsertByAmount(_, _)
InsertByAmount(sorted, item) ==
    IF sorted = <<>> THEN <<item>>
    ELSE IF Head(sorted).amount >= item.amount
         THEN <<Head(sorted)>> \o InsertByAmount(Tail(sorted), item)
         ELSE <<item>> \o sorted

\* A sort that is not stable: an item goes in front of its equals.
RECURSIVE InsertBeforeEqual(_, _)
InsertBeforeEqual(sorted, item) ==
    IF sorted = <<>> THEN <<item>>
    ELSE IF Head(sorted).amount > item.amount
         THEN <<Head(sorted)>> \o InsertBeforeEqual(Tail(sorted), item)
         ELSE <<item>> \o sorted

RECURSIVE SortByAmount_TiesReversed(_)
SortByAmount_TiesReversed(items) ==
    IF items = <<>> THEN <<>>
    ELSE InsertBeforeEqual(SortByAmount_TiesReversed(SubSeq(items, 1, Len(items) - 1)),
                           items[Len(items)])

RECURSIVE SortByAmount(_)
SortByAmount(items) ==
    IF items = <<>> THEN <<>>
    ELSE InsertByAmount(SortByAmount(SubSeq(items, 1, Len(items) - 1)), items[Len(items)])

\* The body of the paymentTotals memo.
PaymentTotals(es, model) ==
    IF es.t # "arr" THEN [items |-> <<>>, grandTotal |-> 0]
    ELSE LET acc == AddEntries([totals |-> <<>>, grandTotal |-> 0], FilteredEntries(es.a, model))
             withPercentage == [k \in 1..Len(acc.totals) |->
                                   [type |-> acc.totals[k].type,
                                    count |-> acc.totals[k].count,
                                    amount |-> acc.totals[k].amount,
                                    percentage |-> Percentage(acc.totals[k].amount, acc.grandTotal)]]
         IN  [items |-> SortByAmount(withPercentage), grandTotal |-> acc.grandTotal]

\* The count cell of the grand-total row: items.reduce((sum, item) => sum + item.count, 0)
RECURSIVE TotalCount(_)
TotalCount(items) == IF items = <<>> THEN 0 ELSE Head(items).count + TotalCount(Tail(items))

Missing == JsNull

Peso1000p25 == <<"₱", "1", ",", "0", "0", "0", ".", "2", "5">>

\* The entries of the model: listed and unlisted payment types, a missing
\* and an empty one; amounts that are strings, numbers, null, unparseable,
\* zero (as a string and as a number) and negative.
EntryChoices ==
    { [paymentType |-> JsStr("BDO"),     amount |-> JsStr(<<"1", ".", "5", "0">>)],
      [paymentType |-> JsStr("BDO"),     amount |-> JsNull],
      [paymentType |-> JsStr("BDO"),     amount |-> JsStr(<<"-", "1", ".", "5", "0">>)],
      [paymentType |-> JsStr("SM"),      amount |-> JsStr(Peso1000p25)],
      [paymentType |-> JsStr("SM"),      amount |-> JsStr(<<"a", "b">>)],
      [paymentType |-> JsStr("SM"),      amount |-> JsNum(Dec(FALSE, 1, 5000))],
      [paymentType |-> JsStr("Unknown"), amount |-> JsStr(<<"2", ".", "0", "0">>)],
      [paymentType |-> JsStr("Unknown"), amount |-> JsNull],
      [paymentType |-> Missing,          amount |-> JsStr(<<"0", ".", "7", "5">>)],
      [paymentType |-> JsStr(""),        amount |-> JsStr(<<"0", ".", "0", "0">>)],
      [paymentType |-> JsStr("GCash"),   amount |-> JsStr(<<"1", ".", "5", "0">>)],
      [paymentType |-> JsStr("PNB"),     amount |-> JsNum(Dec(FALSE, 0, 0))] }

SummaryInputs == {JsNull, JsObj} \cup {JsArr(es) : es \in SeqsUpTo(EntryChoices, MaxEntries)}

\* The options of the select the model chooses among.
SelectableModels == {"All", "BDO", "SM", "PNB", "Unknown"}

(***************************************************************************)
(* formatAmount (DataTable.jsx, Summary.jsx): the currency formatters.     *)
(***************************************************************************)
RECURSIVE Pow10(_)
Pow10(k) == IF k = 0 THEN 1 ELSE 10 * Pow10(k - 1)

RECURSIVE Zeros(_)
Zeros(k) == IF k <= 0 THEN <<>> ELSE <<"0">> \o Zeros(k - 1)

\* The digits ds with a comma before every group of three from the right.
RECURSIVE GroupThousands(_)
GroupThousands(ds) ==
    IF Len(ds) <= 3 THEN ds
    ELSE GroupThousands(SubSeq(ds, 1, Len(ds) - 3)) \o <<",">> \o SubSeq(ds, Len(ds) - 2, Len(ds))

\* The en-PH rendering of the decimal d with exactly fd fraction digits
\* (minimumFractionDigits = maximumFractionDigits = fd): rounded half away
\* from zero, the integer part grouped, a minus sign in front when negative.
LocaleDigits(d, fd) ==
    LET scale   == Pow10(4 - fd)
        rounded == IF fd >= 4 THEN d.frac
                   ELSE (d.frac \div scale) + (IF 2 * (d.frac % scale) >= scale THEN 1 ELSE 0)
        carry   == fd < 4 /\ rounded = Pow10(fd)
        int     == IF carry THEN d.int + 1 ELSE d.int
        frac    == IF carry THEN 0 ELSE rounded
        shown   == IF fd >= 4 THEN FractionToDigits(frac) \o Zeros(fd - 4)
                   ELSE Zeros(fd - Len(NatToDigits(frac))) \o NatToDigits(frac)
    IN  GroupThousands(NatToDigits(int)) \o (IF fd = 0 THEN <<>> ELSE <<".">> \o shown)

\* number.toLocaleString('en-PH', {minimumFractionDigits: fd, maximumFractionDigits: fd})
ToLocaleString(d, fd) ==
    IF d.nan THEN <<"N", "a", "N">>
    ELSE (IF d.neg THEN <<"-">> ELSE <<>>) \o LocaleDigits(d, fd)

\* new Intl.NumberFormat('en-PH', {style: 'currency', currency: 'PHP',
\*   minimumFractionDigits: 2, maximumFractionDigits: 2}).format(number)
CurrencyFormat(d) ==
    IF d.nan THEN <<"₱", "N", "a", "N">>
    ELSE (IF d.neg THEN <<"-">> ELSE <<>>) \o <<"₱">> \o LocaleDigits(d, 2)

ZeroText == <<"₱", "0", ".", "0", "0">>

\* !amount: null, undefined, 0, NaN and '' are falsy.
Falsy(v) ==
    \/ v.t = "null"
    \/ v.t = "num" /\ (v.n.nan \/ (v.n.int = 0 /\ v.n.frac = 0))
    \/ v.t = "str" /\ v.s = <<>>

\* s.replace(/[₱,\s]/g, '')
StripPesoCommasSpaces(s) == SelectSeq(s, LAMBDA c : c \notin {"₱", ","} /\ ~IsWhitespace(c))

\* The index of the first c in s, 0 when there is none.
RECURSIVE IndexOf(_, _, _)
IndexOf(s, c, i) ==
    IF i > Len(s) THEN 0 ELSE IF s[i] = c THEN i ELSE IndexOf(s, c, i + 1)

\* cleanAmount.includes('.') ? cleanAmount.split('.')[1].length : 0
\* The second piece of the split runs from the first dot to the next.
DecimalPlaces(s) ==
    LET dot == IndexOf(s, ".", 1)
        nxt == IF dot = 0 THEN 0 ELSE IndexOf(s, ".", dot + 1)
    IN  IF dot = 0 THEN 0
        ELSE IF nxt = 0 THEN Len(s) - dot
        ELSE nxt - dot - 1

\* formatAmount of DataTable.jsx.  toLocaleString throws a RangeError for
\* more than 100 fraction digits, which the catch turns into the zero text.
TableFormatAmount_AlwaysCurrency(v) ==
    IF Falsy(v) THEN ZeroText
    ELSE LET cleanAmount == StripPesoCommasSpaces(Trim(JsToString(v)))
             numAmount   == ParseFloat(cleanAmount)
         IN  IF numAmount.nan THEN ZeroText ELSE CurrencyFormat(numAmount)

TableFormatAmount(v) ==
    IF Falsy(v) THEN ZeroText
    ELSE LET cleanAmount   == StripPesoCommasSpaces(Trim(JsToString(v)))
             numAmount     == ParseFloat(cleanAmount)
             decimalPlaces == DecimalPlaces(cleanAmount)
         IN  IF numAmount.nan THEN ZeroText
             ELSE IF decimalPlaces = 1 THEN <<"₱">> \o ToLocaleString(numAmount, 1)
             ELSE IF decimalPlaces = 2 THEN CurrencyFormat(numAmount)
             ELSE IF decimalPlaces > 100 THEN ZeroText
             ELSE <<"₱">> \o ToLocaleString(numAmount, decimalPlaces)

\* formatAmount of Summary.jsx.
SummaryFormatAmount(v) ==
    IF Falsy(v) THEN ZeroText
    ELSE LET numAmount == IF v.t = "str" THEN ParseFloat(StripPesoAndCommas(v.s)) ELSE v.n
         IN  CurrencyFormat(numAmount)

\* /^\d+\.\d+$/.test(s) with the closing anchor left out.
AmountPattern_Unanchored(s) ==
    LET intEnd == DigitRunEnd(s, 1)
    IN  /\ intEnd >= 1
        /\ intEnd + 1 <= Len(s)
        /\ s[intEnd + 1] = "."
        /\ DigitRunEnd(s, intEnd + 2) >= intEnd + 2

\* /^\d+\.\d+$/.test(s): a run of digits from the start, a point, and a run
\* of digits up to the end.
AmountPattern(s) ==
    LET intEnd == DigitRunEnd(s, 1)
    IN  /\ intEnd >= 1
        /\ intEnd + 1 <= Len(s)
        /\ s[intEnd + 1] = "."
        /\ DigitRunEnd(s, intEnd + 2) >= intEnd + 2
        /\ DigitRunEnd(s, intEnd + 2) = Len(s)

\* isAmount of DataTable.jsx.
IsAmount(v) ==
    IF Falsy(v) THEN FALSE
    ELSE AmountPattern(StripPesoCommasSpaces(Trim(JsToString(v))))

FormatFragments ==
    { <<"₱">>, <<",">>, <<".">>, <<" ">>, <<"x">>, <<"-">>,
      <<"5">>, <<"1", "2">>, <<"3", "4", "5">>, <<"5", ".", "1">> }

\* The decimals of the model carry four fraction digits: no dot of the text
\* is followed by a longer run of digits once the formatters have stripped it.
FractionFits(s) ==
    LET c == StripPesoCommasSpaces(s)
    IN  \A i \in 1..Len(c) : c[i] = "." => DigitRunEnd(c, i + 1) - i <= 4

FormatInputs ==
    {JsNull, JsNum(NaN), JsNum(Dec(FALSE, 0, 0)), JsNum(Dec(FALSE, 12, 5000)),
     JsNum(Dec(FALSE, 1234, 5600))}
    \cup {JsStr(Concat(fs)) : fs \in {f \in SeqsUpTo(FormatFragments, MaxFragments) :
                                        FractionFits(Concat(f))}}

(***************************************************************************)
(* DataTable (DataTable.jsx): the summary memo over the rows.              *)
(***************************************************************************)
\* The amount of a row as the forEach of the memo reads it: NaN stands for
\* a row it passes over.
RowAmount(row) ==
    IF Falsy(row.amount) THEN NaN
    ELSE ParseFloat(StripPesoCommasSpaces(Trim(JsToString(row.amount))))

\* One pass of data.forEach.
CountRow(acc, row) ==
    LET a == RowAmount(row)
    IN  IF a.nan THEN acc
        ELSE [acc EXCEPT !.totalAmount = @ + Units(a), !.amountCount = @ + 1]

RECURSIVE CountRows(_, _)
CountRows(acc, rows) ==
    IF rows = <<>> THEN acc ELSE CountRows(CountRow(acc, Head(rows)), Tail(rows))

\* The memo with an empty array taken for missing data.
DataSummary_EmptyIsMissing(data) ==
    IF data.t # "arr" \/ data.a = <<>> THEN JsNull
    ELSE CountRows([t |-> "obj", totalRows |-> Len(data.a), amountCount |-> 0, totalAmount |-> 0],
                   data.a)

\* The body of the summary memo: null for data that is missing or no array.
DataSummary(data) ==
    IF data.t # "arr" THEN JsNull
    ELSE CountRows([t |-> "obj", totalRows |-> Len(data.a), amountCount |-> 0, totalAmount |-> 0],
                   data.a)

(***************************************************************************)
(***************************************************************************)
(* The search box of App (App.jsx): useDebounce and the indicator.         *)
(***************************************************************************)
DebounceDelay == 300

\* The texts the search box takes.
SearchTerms == {"", "a", "ab", "b"}

\* The amounts by which time advances in one step.
TimeSteps == {DebounceDelay \div 6, DebounceDelay \div 3, DebounceDelay}

\* The effect of useDebounce after a render with a new value, with the
\* cleanup of the previous effect left out.
useDebounceEffect_NoCleanup(timers, value) ==
    timers \cup {[value |-> value, remaining |-> DebounceDelay]}

\* The effect of useDebounce after a render with a new value: the cleanup of
\* the previous effect clears its timeout, and a new one is set.
useDebounceEffect(timers, value) ==
    {[value |-> value, remaining |-> DebounceDelay]}

SearchIdle ==
    /\ searchTerm = ""
    /\ debouncedSearchTerm = ""
    /\ isSearching = FALSE
    /\ timer = {}
    /\ quiet = 0
    /\ burst = 0
    /\ setCalls = 0

(***************************************************************************)
(* Upload, status polling and report generation of App (App.jsx).          *)
(***************************************************************************)
PollInterval == 1000

\* The processing ids: the service gives the upload of file f the id f.
Ids == 1..MaxFiles

\* The error text a response of the service carries ('' when it has none).
ServerErrors == {"", "rejected by the service"}

\* The first operand alone, with nothing to fall back on.
FirstNonEmpty_FirstOnly(a, b, c) == a

\* a || b || c over strings.
FirstNonEmpty(a, b, c) == IF a # "" THEN a ELSE IF b # "" THEN b ELSE c

\* The amounts by which time advances in one step while a poll is awaited.
PollSteps == {PollInterval \div 2, PollInterval}

NoEvent == [kind |-> "mounted", id |-> 0, waited |-> 0]

\* pollProcessingStatus(id) up to its await: the status request is sent.
SendStatusRequest(requests, id) == [requests EXCEPT ![id] = @ + 1]

\* The timeout of the poll set to fire at once.
SchedulePoll_AtOnce(timers, id) ==
    timers \cup {[id |-> id, remaining |-> 0, waited |-> 0]}

\* setTimeout(() => pollProcessingStatus(processingId), 1000)
SchedulePoll(timers, id) ==
    timers \cup {[id |-> id, remaining |-> PollInterval, waited |-> 0]}

\* Math.round((progressEvent.loaded * 100) / progressEvent.total), all of the
\* archive received.
Percents == {100}

UploadIdle ==
    /\ uploadedFile = 0
    /\ uploadStatus = "idle"
    /\ processingId = 0
    /\ processedData = 0
    /\ rawContents = 0
    /\ separator = 0
    /\ error = JsNull
    /\ generatingReport = FALSE
    /\ uploadRequests = {}
    /\ statusRequests = [id \in Ids |-> 0]
    /\ pollTimers = {}
    /\ reportRequests = {}
    /\ answers = [id \in Ids |-> 0]
    /\ closed = {}
    /\ event = NoEvent
    /\ reportProgress = 0

(***************************************************************************)
(* DataTable (DataTable.jsx): search and pagination.                       *)
(***************************************************************************)
rowsPerPage == 50

\* c.toLowerCase() of a character.
ToLowerCase(c) == IF c = "A" THEN "a" ELSE IF c = "B" THEN "b" ELSE c

LowerCased(s) == [i \in 1..Len(s) |-> ToLowerCase(s[i])]

\* s.includes(sub)
Includes(s, sub) ==
    \E i \in 0..(Len(s) - Len(sub)) : SubSeq(s, i + 1, i + Len(sub)) = sub

\* Object.values(row).some(value =>
\*     value && value.toString().toLowerCase().includes(searchTerm.toLowerCase()))
RowMatches(row, term) ==
    \E k \in 1..Len(row) :
        /\ ~Falsy(row[k])
        /\ Includes(LowerCased(JsToString(row[k])), LowerCased(term))

\* The filteredData memo: nothing for data that is missing or no array.
FilteredData(d, term) ==
    IF d.t # "arr" THEN <<>>
    ELSE IF term = <<>> THEN d.a
    ELSE SelectSeq(d.a, LAMBDA row : RowMatches(row, term))

\* Math.ceil(filteredData.length / rowsPerPage)
TotalPages(rows) == (Len(rows) + rowsPerPage - 1) \div rowsPerPage

\* filteredData.slice(startIndex, endIndex)
CurrentData(rows, page) ==
    LET startIndex == (page - 1) * rowsPerPage
        endIndex   == startIndex + rowsPerPage
        last       == IF endIndex > Len(rows) THEN Len(rows) ELSE endIndex
    IN  IF startIndex >= Len(rows) THEN <<>> ELSE SubSeq(rows, startIndex + 1, last)

\* The rows of the model: the values of their columns.
RowOfA == <<JsStr(<<"A", "x">>), JsNull>>

RowOfB == <<JsNull, JsStr(<<"x", "b">>)>>

RECURSIVE Repeat(_, _)
Repeat(row, n) == IF n = 0 THEN <<>> ELSE <<row>> \o Repeat(row, n - 1)

\* No row, one, full pages and full pages with one row more.
RowCounts ==
    {0, 1} \cup {k * rowsPerPage : k \in 1..MaxFullPages}
           \cup {k * rowsPerPage + 1 : k \in 1..MaxFullPages}

DataSets ==
    {JsNull, JsObj}
    \cup {JsArr(Repeat(RowOfA, n) \o Repeat(RowOfB, m)) : n \in RowCounts, m \in {0, 1, rowsPerPage + 1}}

\* The pages the model follows: past the last page, Next stays enabled.
PageLimit == MaxFullPages + 4

TableSearchTerms == {<<>>, <<"a">>, <<"B">>, <<"x">>, <<"z">>}

TableIdle ==
    /\ tableData = JsNull
    /\ tableSearchTerm = <<>>
    /\ currentPage = 1

AppIdle == SearchIdle /\ UploadIdle /\ TableIdle

(* The line cleaner as a state machine.                                    *)
(***************************************************************************)
\* The characters a raw line is made of in the model.
CleanAlphabet == {"|", "^", ",", " ", "\t", "a", "1"}

CleanInputs == {JsNull} \cup {JsStr(s) : s \in SeqsUpTo(CleanAlphabet, MaxLineLen)}

AmountIdle ==
    /\ contents = JsNull
    /\ matches = <<>>
    /\ extracted = <<>>
    /\ total = 0

SummaryIdle ==
    /\ entries = JsNull
    /\ selectedModel = "All"
    /\ paymentTotals = [items |-> <<>>, grandTotal |-> 0]
    /\ summary = JsNull

FormatIdle ==
    /\ amount = JsNull
    /\ tableText = <<>>
    /\ summaryText = <<>>
    /\ isAmountValue = FALSE

InitClean ==
    /\ pc = "line"
    /\ line \in CleanInputs
    /\ cleaned = <<>>
    /\ recleaned = <<>>
    /\ AmountIdle
    /\ SummaryIdle
    /\ FormatIdle
    /\ AppIdle

\* The table cell {cleanLineContent(line)} of a rendered row.
CleanLine ==
    /\ pc = "line"
    /\ cleaned' = cleanLineContent(line)
    /\ pc' = "cleaned"
    /\ UNCHANGED <<line, recleaned, amountVars, summaryVars, formatVars, appVars>>

\* The cleaner applied to its own output.
CleanAgain ==
    /\ pc = "cleaned"
    /\ recleaned' = cleanLineContent(JsStr(cleaned))
    /\ pc' = "recleaned"
    /\ UNCHANGED <<line, cleaned, amountVars, summaryVars, formatVars, appVars>>

NextClean == CleanLine \/ CleanAgain

SpecClean == InitClean /\ [][NextClean]_vars

(***************************************************************************)
(* The amount summation as a state machine.                                *)
(***************************************************************************)
CleanIdle ==
    /\ line = JsNull
    /\ cleaned = <<>>
    /\ recleaned = <<>>

InitAmounts ==
    /\ pc = "contents"
    /\ contents \in AmountInputs
    /\ matches = <<>>
    /\ extracted = <<>>
    /\ total = 0
    /\ CleanIdle
    /\ SummaryIdle
    /\ FormatIdle
    /\ AppIdle

\* calculateTotalAmount(contents): 0 unless contents is an array; else every
\* line is matched, every accepted match rounded and added, and the sum
\* rounded.
CalculateTotalAmount ==
    /\ pc = "contents"
    /\ pc' = "totalled"
    /\ IF contents.t # "arr"
       THEN /\ matches' = <<>>
            /\ extracted' = <<>>
            /\ total' = 0
       ELSE /\ matches' = [k \in 1..Len(contents.a) |-> LineMatches(contents.a[k])]
            /\ extracted' \in RoundedSequences(AcceptedOfLines(contents.a))
            /\ total' = RoundedTotal(Sum(extracted'))
    /\ UNCHANGED <<contents, cleanVars, summaryVars, formatVars, appVars>>

NextAmounts == CalculateTotalAmount

SpecAmounts == InitAmounts /\ [][NextAmounts]_vars

(***************************************************************************)
(* The payment summary as a state machine.                                 *)
(***************************************************************************)
\* The component is given its entries; useState('All').
InitSummary ==
    /\ pc = "mounting"
    /\ entries \in SummaryInputs
    /\ selectedModel = "All"
    /\ paymentTotals = [items |-> <<>>, grandTotal |-> 0]
    /\ summary = JsNull
    /\ CleanIdle
    /\ AmountIdle
    /\ FormatIdle
    /\ AppIdle

\* The first render of the summary table and of the data table over the
\* records: the memos are computed.
Mount ==
    /\ pc = "mounting"
    /\ pc' = "rendered"
    /\ paymentTotals' = PaymentTotals(entries, selectedModel)
    /\ summary' = DataSummary(entries)
    /\ UNCHANGED <<entries, selectedModel, cleanVars, amountVars, formatVars, appVars>>

\* onChange of the select: setSelectedModel, and the memo is recomputed.
SelectModel(model) ==
    /\ pc = "rendered"
    /\ selectedModel' = model
    /\ paymentTotals' = PaymentTotals(entries, model)
    /\ UNCHANGED <<pc, entries, summary, cleanVars, amountVars, formatVars, appVars>>

NextSummary == Mount \/ \E model \in SelectableModels : SelectModel(model)

SpecSummary == InitSummary /\ [][NextSummary]_vars

(***************************************************************************)
(* The formatters as a state machine.                                      *)
(***************************************************************************)
InitFormat ==
    /\ pc = "amount"
    /\ amount \in FormatInputs
    /\ tableText = <<>>
    /\ summaryText = <<>>
    /\ isAmountValue = FALSE
    /\ CleanIdle
    /\ AmountIdle
    /\ SummaryIdle
    /\ AppIdle

\* A table cell (which asks isAmount of its value) and a summary cell are
\* rendered for the amount.
FormatAmount ==
    /\ pc = "amount"
    /\ pc' = "formatted"
    /\ tableText' = TableFormatAmount(amount)
    /\ summaryText' = SummaryFormatAmount(amount)
    /\ isAmountValue' = IsAmount(amount)
    /\ UNCHANGED <<amount, cleanVars, amountVars, summaryVars, appVars>>

NextFormat == FormatAmount

SpecFormat == InitFormat /\ [][NextFormat]_vars

(***************************************************************************)
(* The search box as a state machine.                                      *)
(***************************************************************************)
PureIdle ==
    /\ CleanIdle
    /\ AmountIdle
    /\ SummaryIdle
    /\ FormatIdle

\* App has mounted: the effect of useDebounce has set its first timeout and
\* the effect on debouncedSearchTerm has cleared the indicator.
InitSearch ==
    /\ pc = "search"
    /\ searchTerm = ""
    /\ debouncedSearchTerm = ""
    /\ isSearching = FALSE
    /\ timer = useDebounceEffect({}, "")
    /\ quiet = 0
    /\ burst = 0
    /\ setCalls = 0
    /\ PureIdle
    /\ UploadIdle
    /\ TableIdle

\* onChange of the search box, which fires when its text changes.
HandleSearchChange(value) ==
    /\ value # searchTerm
    /\ IF setCalls > 0 \/ burst = 0 THEN burst' = 1
       ELSE burst < MaxBurst /\ burst' = burst + 1
    /\ isSearching' = TRUE
    /\ searchTerm' = value
    /\ timer' = useDebounceEffect(timer, value)
    /\ quiet' = 0
    /\ setCalls' = 0
    /\ UNCHANGED <<pc, debouncedSearchTerm, pureVars, uploadVars, tableVars>>

\* onClick of the clear button, which is shown while the box holds text.
ClearSearch ==
    /\ searchTerm # ""
    /\ IF setCalls > 0 \/ burst = 0 THEN burst' = 1
       ELSE burst < MaxBurst /\ burst' = burst + 1
    /\ searchTerm' = ""
    /\ isSearching' = FALSE
    /\ timer' = useDebounceEffect(timer, "")
    /\ quiet' = 0
    /\ setCalls' = 0
    /\ UNCHANGED <<pc, debouncedSearchTerm, pureVars, uploadVars, tableVars>>

\* Time passes, up to the moment the next timeout is due.
Tick(d) ==
    /\ quiet < DebounceDelay \/ timer # {}
    /\ \A t \in timer : d <= t.remaining
    /\ timer' = {[value |-> t.value, remaining |-> t.remaining - d] : t \in timer}
    /\ quiet' = IF quiet + d > DebounceDelay THEN DebounceDelay ELSE quiet + d
    /\ UNCHANGED <<pc, searchTerm, debouncedSearchTerm, isSearching, burst, setCalls, pureVars,
                   uploadVars, tableVars>>

\* A timeout of useDebounce is due: setDebouncedValue(value).  When the
\* debounced term changes, the effect on it clears the indicator.
TimerFires(t) ==
    /\ t.remaining = 0
    /\ timer' = timer \ {t}
    /\ debouncedSearchTerm' = t.value
    /\ isSearching' = IF t.value # debouncedSearchTerm THEN FALSE ELSE isSearching
    /\ setCalls' = setCalls + 1
    /\ UNCHANGED <<pc, searchTerm, quiet, burst, pureVars, uploadVars, tableVars>>

NextSearch ==
    \/ \E value \in SearchTerms : HandleSearchChange(value)
    \/ ClearSearch
    \/ \E d \in TimeSteps : Tick(d)
    \/ \E t \in timer : TimerFires(t)

SpecSearch == InitSearch /\ [][NextSearch]_vars

(***************************************************************************)
(* Upload, polling and report generation as a state machine.               *)
(***************************************************************************)
InitUpload ==
    /\ pc = "upload"
    /\ UploadIdle
    /\ SearchIdle
    /\ PureIdle
    /\ TableIdle

\* handleFileChange up to its await: the state is reset and the file posted.
HandleFileChange ==
    /\ uploadedFile < MaxFiles
    /\ uploadedFile' = uploadedFile + 1
    /\ uploadStatus' = "uploading"
    /\ error' = JsNull
    /\ processedData' = 0
    /\ rawContents' = 0
    /\ uploadRequests' = uploadRequests \cup {uploadedFile + 1}
    /\ event' = [kind |-> "selected", id |-> uploadedFile + 1, waited |-> 0]
    /\ UNCHANGED <<pc, processingId, separator, generatingReport, statusRequests, pollTimers,
                   reportRequests, answers, closed, reportProgress,
                   pureVars, searchVars, tableVars>>

\* handleFileChange after its await, the response carrying a processing id:
\* the id is stored and polling starts.
UploadAccepted(f) ==
    /\ f \in uploadRequests
    /\ uploadRequests' = uploadRequests \ {f}
    /\ processingId' = f
    /\ uploadStatus' = "processing"
    /\ statusRequests' = SendStatusRequest(statusRequests, f)
    /\ event' = [kind |-> "uploadAccepted", id |-> f, waited |-> 0]
    /\ UNCHANGED <<pc, uploadedFile, processedData, rawContents, separator, error,
                   generatingReport, pollTimers, reportRequests, answers, closed,
                   reportProgress,
                   pureVars, searchVars, tableVars>>

\* handleFileChange after its await, the request rejected (with the error
\* text of the service or none) or answered without a processing id: the catch.
UploadFailed(f, kind, serverError) ==
    /\ f \in uploadRequests
    /\ uploadRequests' = uploadRequests \ {f}
    /\ error' = IF kind = "uploadRejected"
                THEN JsStr(FirstNonEmpty(serverError, "Request failed", "Failed to upload file"))
                ELSE JsStr(FirstNonEmpty("", "Invalid response from server: missing processing_id",
                                         "Failed to upload file"))
    /\ uploadStatus' = "error"
    /\ event' = [kind |-> kind, id |-> f, waited |-> 0]
    /\ UNCHANGED <<pc, uploadedFile, processingId, processedData, rawContents, separator,
                   generatingReport, statusRequests, pollTimers, reportRequests, answers,
                   closed, reportProgress,
                   pureVars, searchVars, tableVars>>

\* pollProcessingStatus after its await, status 'completed'.
StatusCompleted(id) ==
    /\ statusRequests[id] > 0
    /\ statusRequests' = [statusRequests EXCEPT ![id] = @ - 1]
    /\ processedData' = id
    /\ rawContents' = id
    /\ separator' = id
    /\ uploadStatus' = "completed"
    /\ closed' = closed \cup {id}
    /\ event' = [kind |-> "statusCompleted", id |-> id, waited |-> 0]
    /\ UNCHANGED <<pc, uploadedFile, processingId, error, generatingReport, uploadRequests,
                   pollTimers, reportRequests, answers, reportProgress,
                   pureVars, searchVars, tableVars>>

\* pollProcessingStatus after its await, status 'error', the request
\* rejected, or a response without data: the catch.
StatusFailed(id, kind, serverError) ==
    /\ statusRequests[id] > 0
    /\ statusRequests' = [statusRequests EXCEPT ![id] = @ - 1]
    /\ error' = CASE kind = "statusError" ->
                       JsStr(FirstNonEmpty("", FirstNonEmpty(serverError, "Failed to process file", ""),
                                           "Failed to check processing status"))
                  [] kind = "statusRejected" ->
                       JsStr(FirstNonEmpty(serverError, "Request failed",
                                           "Failed to check processing status"))
                  [] OTHER ->
                       JsStr(FirstNonEmpty("", "No response data received from server",
                                           "Failed to check processing status"))
    /\ uploadStatus' = "error"
    /\ closed' = closed \cup {id}
    /\ event' = [kind |-> kind, id |-> id, waited |-> 0]
    /\ UNCHANGED <<pc, uploadedFile, processingId, processedData, rawContents, separator,
                   generatingReport, uploadRequests, pollTimers, reportRequests, answers,
                   reportProgress,
                   pureVars, searchVars, tableVars>>

\* pollProcessingStatus after its await, any other status: poll again later.
StatusPending(id) ==
    /\ statusRequests[id] > 0
    /\ answers[id] < MaxPolls
    /\ statusRequests' = [statusRequests EXCEPT ![id] = @ - 1]
    /\ answers' = [answers EXCEPT ![id] = @ + 1]
    /\ pollTimers' = SchedulePoll(pollTimers, id)
    /\ event' = [kind |-> "statusPending", id |-> id, waited |-> 0]
    /\ UNCHANGED <<pc, uploadedFile, uploadStatus, processingId, processedData, rawContents,
                   separator, error, generatingReport, uploadRequests, reportRequests,
                   closed, reportProgress,
                   pureVars, searchVars, tableVars>>

\* Time passes, up to the moment the next timeout is due.
PollTick(d) ==
    /\ pollTimers # {}
    /\ \A t \in pollTimers : d <= t.remaining
    /\ pollTimers' = {[id |-> t.id, remaining |-> t.remaining - d, waited |-> t.waited + d] :
                         t \in pollTimers}
    /\ UNCHANGED <<pc, uploadedFile, uploadStatus, processingId, processedData, rawContents,
                   separator, error, generatingReport, uploadRequests, statusRequests,
                   reportRequests, answers, closed, event, reportProgress,
                   pureVars, searchVars, tableVars>>

\* A timeout of pollProcessingStatus is due: pollProcessingStatus(id).
PollTimerFires(t) ==
    /\ t \in pollTimers
    /\ t.remaining = 0
    /\ pollTimers' = pollTimers \ {t}
    /\ statusRequests' = SendStatusRequest(statusRequests, t.id)
    /\ event' = [kind |-> "polledAgain", id |-> t.id, waited |-> t.waited]
    /\ UNCHANGED <<pc, uploadedFile, uploadStatus, processingId, processedData, rawContents,
                   separator, error, generatingReport, uploadRequests, reportRequests,
                   answers, closed, reportProgress,
                   pureVars, searchVars, tableVars>>

\* handleGenerateReport up to its await, for any data: what it stores in
\* error and generatingReport and the requests it sends.
GenerateReportStart_Unguarded(pd, rc, sep, file, generating) ==
    [error |-> JsNull, generatingReport |-> TRUE,
     sent |-> {[processed_data |-> pd, raw_contents |-> rc,
                separator |-> sep, original_filename |-> file]}]

GenerateReportStart(pd, rc, sep, file, generating) ==
    IF pd = 0 \/ rc = 0
    THEN [error |-> JsStr("No data available for report generation"),
          generatingReport |-> generating, sent |-> {}]
    ELSE [error |-> JsNull, generatingReport |-> TRUE,
          sent |-> {[processed_data |-> pd, raw_contents |-> rc,
                     separator |-> sep, original_filename |-> file]}]

\* The button of the handler is rendered with the contents and is disabled
\* without processed data and while a report is generated.
HandleGenerateReport ==
    /\ processedData # 0
    /\ rawContents # 0
    /\ ~generatingReport
    /\ LET started == GenerateReportStart(processedData, rawContents, separator, uploadedFile,
                                          generatingReport)
       IN  /\ generatingReport' = started.generatingReport
           /\ error' = started.error
           /\ reportRequests' = reportRequests \cup started.sent
    /\ event' = [kind |-> "reportRequested", id |-> processedData, waited |-> 0]
    /\ UNCHANGED <<pc, uploadedFile, uploadStatus, processingId, processedData, rawContents,
                   separator, uploadRequests, statusRequests, pollTimers, answers, closed,
                   reportProgress,
                   pureVars, searchVars, tableVars>>

\* handleGenerateReport after its await, the archive received and saved.
ReportReceived(r) ==
    /\ r \in reportRequests
    /\ reportRequests' = reportRequests \ {r}
    /\ generatingReport' = FALSE
    /\ reportProgress' = 0
    /\ error' = JsNull
    /\ event' = [kind |-> "reportReceived", id |-> r.processed_data, waited |-> 0]
    /\ UNCHANGED <<pc, uploadedFile, uploadStatus, processingId, processedData, rawContents,
                   separator, uploadRequests, statusRequests, pollTimers, answers, closed,
                   pureVars, searchVars, tableVars>>

\* handleGenerateReport after its await, the request rejected or answered
\* without data: the catch.
ReportFailed(r, kind) ==
    /\ r \in reportRequests
    /\ reportRequests' = reportRequests \ {r}
    /\ error' = IF kind = "reportRejected"
                THEN JsStr(FirstNonEmpty("", "Request failed", "Failed to generate report"))
                ELSE JsStr(FirstNonEmpty("", "No data received from server",
                                         "Failed to generate report"))
    /\ generatingReport' = FALSE
    /\ reportProgress' = 0
    /\ event' = [kind |-> kind, id |-> r.processed_data, waited |-> 0]
    /\ UNCHANGED <<pc, uploadedFile, uploadStatus, processingId, processedData, rawContents,
                   separator, uploadRequests, statusRequests, pollTimers, answers, closed,
                   pureVars, searchVars, tableVars>>

\* onDownloadProgress: the part of the archive received so far.
ReportProgress(r, percentCompleted) ==
    /\ r \in reportRequests
    /\ percentCompleted > reportProgress
    /\ reportProgress' = percentCompleted
    /\ UNCHANGED <<pc, uploadedFile, uploadStatus, processingId, processedData, rawContents,
                   separator, error, generatingReport, uploadRequests, statusRequests,
                   pollTimers, reportRequests, answers, closed, event,
                   pureVars, searchVars, tableVars>>

\* The responses of the service and the timeouts: what happens without the user.
UploadProgress ==
    \/ \E f \in Ids : UploadAccepted(f)
    \/ \E f \in Ids, kind \in {"uploadRejected", "uploadNoId"}, e \in ServerErrors :
           UploadFailed(f, kind, e)
    \/ \E id \in Ids : StatusCompleted(id)
    \/ \E id \in Ids, kind \in {"statusError", "statusRejected", "statusNoData"},
          e \in ServerErrors : StatusFailed(id, kind, e)
    \/ \E id \in Ids : StatusPending(id)
    \/ \E d \in PollSteps : PollTick(d)
    \/ \E t \in pollTimers : PollTimerFires(t)

NextUpload ==
    \/ HandleFileChange
    \/ UploadProgress
    \/ HandleGenerateReport
    \/ \E r \in reportRequests, percent \in Percents : ReportProgress(r, percent)
    \/ \E r \in reportRequests : ReportReceived(r)
    \/ \E r \in reportRequests, kind \in {"reportRejected", "reportNoData"} : ReportFailed(r, kind)

SpecUpload == InitUpload /\ [][NextUpload]_vars

\* Every request is answered and every timeout fires.
SpecUploadFair == SpecUpload /\ WF_vars(UploadProgress)

(***************************************************************************)
(* The data table as a state machine.                                      *)
(***************************************************************************)
InitTable ==
    /\ pc = "table"
    /\ tableData \in DataSets
    /\ tableSearchTerm = <<>>
    /\ currentPage = 1
    /\ PureIdle
    /\ SearchIdle
    /\ UploadIdle

\* The pagination as rendered: the rows that pass the search, and their pages.
filteredData == FilteredData(tableData, tableSearchTerm)

totalPages == TotalPages(filteredData)

\* onChange of the search box of the table.
TableSearchChange(term) ==
    /\ term # tableSearchTerm
    /\ tableSearchTerm' = term
    /\ currentPage' = 1
    /\ UNCHANGED <<pc, tableData, pureVars, searchVars, uploadVars>>

\* handlePageChange(page)
handlePageChange(page) ==
    /\ currentPage' = page
    /\ UNCHANGED <<pc, tableData, tableSearchTerm, pureVars, searchVars, uploadVars>>

\* The buttons, rendered when there is more than one page; First and
\* Previous are disabled on page 1, Next and Last on the last page.
FirstPage ==
    /\ totalPages > 1
    /\ currentPage # 1
    /\ handlePageChange(1)

PreviousPage ==
    /\ totalPages > 1
    /\ currentPage # 1
    /\ handlePageChange(currentPage - 1)

NextPage ==
    /\ totalPages > 1
    /\ currentPage # totalPages
    /\ currentPage < PageLimit
    /\ handlePageChange(currentPage + 1)

LastPage ==
    /\ totalPages > 1
    /\ currentPage # totalPages
    /\ handlePageChange(totalPages)

\* The parent renders the table with other data: the state is kept.
ReplaceData(d) ==
    /\ d # tableData
    /\ tableData' = d
    /\ UNCHANGED <<pc, tableSearchTerm, currentPage, pureVars, searchVars, uploadVars>>

NextTable ==
    \/ \E term \in TableSearchTerms : TableSearchChange(term)
    \/ FirstPage
    \/ PreviousPage
    \/ NextPage
    \/ LastPage
    \/ \E d \in DataSets : ReplaceData(d)

SpecTable == InitTable /\ [][NextTable]_vars

(***************************************************************************)
(* The whole model: any of the components.                                 *)
(***************************************************************************)
Init == InitClean \/ InitAmounts \/ InitSummary \/ InitFormat \/ InitSearch \/ InitUpload \/ InitTable

Next == NextClean \/ NextAmounts \/ NextSummary \/ NextFormat \/ NextSearch \/ NextUpload \/ NextTable

Spec == Init /\ [][Next]_vars

(***************************************************************************)
(* The payment summary, as the claims about the aggregation speak of it:   *)
(* read from the entries, not from the buckets.                            *)
(***************************************************************************)
Rendered == pc = "rendered" /\ entries.t = "arr"

\* The entries of the current view.
ViewEntries ==
    SelectSeq(entries.a,
              LAMBDA e : selectedModel = "All"
                         \/ (e.paymentType.t = "str" /\ e.paymentType.s = selectedModel))

\* The amount an entry stands for: 0 when it is null or does not parse.
AmountOf(e) ==
    IF e.amount.t = "null" THEN 0
    ELSE LET d == ParseFloat(SelectSeq(JsToString(e.amount), LAMBDA c : c \notin {"₱", ","}))
         IN  IF d.nan THEN 0 ELSE Units(d)

\* The bucket an entry belongs to.
BucketOf(e) ==
    IF e.paymentType.t = "null" \/ e.paymentType.s = "" THEN "Unknown" ELSE e.paymentType.s

RECURSIVE SumOfAmounts(_)
SumOfAmounts(es) == IF es = <<>> THEN 0 ELSE AmountOf(Head(es)) + SumOfAmounts(Tail(es))

RECURSIVE SumOfItemAmounts(_)
SumOfItemAmounts(items) ==
    IF items = <<>> THEN 0 ELSE Head(items).amount + SumOfItemAmounts(Tail(items))

Items == paymentTotals.items

(***************************************************************************)
(* C1 as stated: each bucket's percentage is bucketAmount / grandTotal *   *)
(* 100, and when grandTotal is 0 it is defined and equal to 0.  The code   *)
(* divides by a grand total of 0.                                          *)
(***************************************************************************)
C1_PercentageDefined ==
    Rendered =>
        \A k \in 1..Len(Items) :
            /\ Items[k].percentage.k = "finite"
            /\ paymentTotals.grandTotal # 0 =>
                   /\ Items[k].percentage.num = Items[k].amount
                   /\ Items[k].percentage.den = paymentTotals.grandTotal
            /\ paymentTotals.grandTotal = 0 => Items[k].percentage.num = 0

(***************************************************************************)
(* C2 as stated: with a specific payment type chosen, the result is one    *)
(* row for that type when an entry has it, the bucket amounts add up to    *)
(* the subset's grand total, and the row's percentage is 100%.  The code   *)
(* gives no 100% for a subset whose grand total is 0.                      *)
(***************************************************************************)
C2_FilteredViewIsWhole ==
    Rendered /\ selectedModel # "All" =>
        /\ ViewEntries = <<>> => Items = <<>>
        /\ ViewEntries # <<>> => Len(Items) = 1 /\ Items[1].type = selectedModel
        /\ SumOfItemAmounts(Items) = paymentTotals.grandTotal
        /\ paymentTotals.grandTotal = SumOfAmounts(ViewEntries)
        /\ \A k \in 1..Len(Items) :
               /\ Items[k].percentage.k = "finite"
               /\ Items[k].percentage.num = Items[k].percentage.den

(***************************************************************************)
(* C3 as stated: every bucket key is one of the enumerated payment types   *)
(* or "Unknown"; a record whose payment type is missing, empty or outside  *)
(* the enumerated set is counted under "Unknown".  The code opens a        *)
(* bucket for any non-empty payment type.                                  *)
(***************************************************************************)
EnumeratedTypes == {PAYMENT_MODELS[k] : k \in 2..Len(PAYMENT_MODELS)}

C3_BucketKeysEnumerated ==
    Rendered => \A k \in 1..Len(Items) : Items[k].type \in EnumeratedTypes

TokenShape(s, a, b) ==
    \E j \in a..(b - 2) :
        /\ \A k \in a..j : IsDigit(s[k])
        /\ s[j + 1] = "."
        /\ \A k \in (j + 2)..b : IsDigit(s[k])
        /\ b - (j + 1) <= 4

\* The texts of all matches of all lines, in order.
RECURSIVE MatchedTexts(_, _)
MatchedTexts(ls, ms) ==
    IF ls = <<>> THEN <<>>
    ELSE [k \in 1..Len(Head(ms)) |-> SubSeq(Head(ls), Head(ms)[k].from, Head(ms)[k].to)]
         \o MatchedTexts(Tail(ls), Tail(ms))

RECURSIVE StripZeros(_)
StripZeros(ds) == IF ds # <<>> /\ Head(ds) = "0" THEN StripZeros(Tail(ds)) ELSE ds

\* The digits before the dot of a token.
IntegerDigits(tok) == SubSeq(tok, 1, DigitRunEnd(tok, 1))

\* The digits after the dot of a token.
FractionDigits(tok) == SubSeq(tok, DigitRunEnd(tok, 1) + 2, Len(tok))

\* The token's value is above 0 and below 1,000,000, read off its digits:
\* some digit is not 0, and the integer part has at most six significant digits.
TokenInRange(tok) ==
    /\ \E k \in 1..Len(tok) : IsDigit(tok[k]) /\ tok[k] # "0"
    /\ Len(StripZeros(IntegerDigits(tok))) <= 6

\* The token's value in cents, its third and fourth fractional digits cut.
TokenCentsDown(tok) ==
    LET fs == FractionDigits(tok)
        d(k) == IF k <= Len(fs) THEN DigitValue(fs[k]) ELSE 0
    IN  DigitsToNat(StripZeros(IntegerDigits(tok)), 0) * 100 + d(1) * 10 + d(2)

\* The token's value rounded half up to cents.
TokenCentsHalfUp(tok) ==
    LET fs == FractionDigits(tok)
    IN  TokenCentsDown(tok) + (IF Len(fs) >= 3 /\ DigitValue(fs[3]) >= 5 THEN 1 ELSE 0)

Totalled == pc = "totalled" /\ contents.t = "arr"

(***************************************************************************)
(* C5 as stated: on every line the matches are exactly the tokens digits   *)
(* '.' 1-4 digits whose neighbours on both sides are neither a digit nor   *)
(* a dot, so that a token next to a letter is matched and the '1.2' of     *)
(* '1.2.3' is not.  The code does not do this.                             *)
(***************************************************************************)
NotDigitOrDot(s, k) == k < 1 \/ k > Len(s) \/ (~IsDigit(s[k]) /\ s[k] # ".")

ClaimedToken(s, a, b) ==
    /\ TokenShape(s, a, b)
    /\ NotDigitOrDot(s, a - 1)
    /\ NotDigitOrDot(s, b + 1)

C5_TokensBoundedByDigitOrDot ==
    Totalled =>
        \A l \in 1..Len(contents.a) :
            LET s == contents.a[l]
            IN  {<<m.from, m.to>> : m \in {matches[l][k] : k \in 1..Len(matches[l])}}
                = {ab \in (1..Len(s)) \X (1..Len(s)) : ClaimedToken(s, ab[1], ab[2])}

(***************************************************************************)
(* C5 amended: scanning each line from the left and resuming after each    *)
(* match, the extractor finds every token digits '.' 1-4 digits whose      *)
(* neighbours on both sides are non-word characters (not a letter, a digit *)
(* or an underscore) or the ends of the line.  The matches are in order    *)
(* and do not overlap; a token next to a letter is not matched; a '.' is   *)
(* a boundary, so the '1.2' of '1.2.3' is matched; a decimal followed by   *)
(* a fifth fractional digit is not matched as a shorter token.             *)
(***************************************************************************)
NotWord(s, k) == k < 1 \/ k > Len(s) \/ ~IsWordChar(s[k])

WordBoundedToken(s, a, b) ==
    /\ TokenShape(s, a, b)
    /\ NotWord(s, a - 1)
    /\ NotWord(s, b + 1)

C5_TokensBoundedByNonWord ==
    Totalled =>
        \A l \in 1..Len(contents.a) :
            LET s == contents.a[l]
                M == matches[l]
            IN  /\ \A k \in 1..Len(M) : WordBoundedToken(s, M[k].from, M[k].to)
                /\ \A k \in 1..(Len(M) - 1) : M[k].to < M[k + 1].from
                /\ \A a \in 1..Len(s), b \in 1..Len(s) :
                       WordBoundedToken(s, a, b) =>
                           \/ \E k \in 1..Len(M) : M[k].from = a /\ M[k].to = b
                           \/ \E k \in 1..Len(M) : M[k].from < a /\ a <= M[k].to

\* A line where a token is followed by a dot and a digit has been matched,
\* and the token before the dot is among the matches.
C5_Witness ==
    /\ Totalled
    /\ \E l \in 1..Len(contents.a) :
           \E k \in 1..Len(matches[l]) :
               LET s == contents.a[l]
                   e == matches[l][k].to
               IN  e + 2 <= Len(s) /\ s[e + 1] = "." /\ IsDigit(s[e + 2])

(***************************************************************************)
(* C6  A matched token is kept only when its value is strictly above 0     *)
(* and strictly below 1,000,000: the extracted list holds one amount, the  *)
(* token's value to the cent, for each such token, in order, and nothing   *)
(* for any other token; the total is the sum of the list.                  *)
(***************************************************************************)
C6_OnlyAmountsInRange ==
    Totalled =>
        LET kept == SelectSeq(MatchedTexts(contents.a, matches), TokenInRange)
        IN  /\ Len(extracted) = Len(kept)
            /\ \A k \in 1..Len(kept) :
                   extracted[k] \in {TokenCentsDown(kept[k]), TokenCentsDown(kept[k]) + 1}
            /\ total = Sum(extracted)

\* 999999.99 and 1000000.00 were both matched, and only the first was kept.
C6_Witness ==
    /\ Totalled
    /\ LET toks == MatchedTexts(contents.a, matches)
       IN  /\ \E k \in 1..Len(toks) : toks[k] = <<"9", "9", "9", "9", "9", "9", ".", "9", "9">>
           /\ \E k \in 1..Len(toks) : toks[k] = <<"1", "0", "0", "0", "0", "0", "0", ".", "0", "0">>
    /\ extracted = <<99999999>>
    /\ total = 99999999

(***************************************************************************)
(* C7 as stated: the total is the sum, over the accepted tokens, of the    *)
(* token rounded half up to two decimal places, and 0 when the input is    *)
(* missing, not a list or holds no accepted token.  The code's rounding    *)
(* of a token on a half cent can go down.                                  *)
(***************************************************************************)
RECURSIVE SumHalfUp(_)
SumHalfUp(toks) ==
    IF toks = <<>> THEN 0 ELSE TokenCentsHalfUp(Head(toks)) + SumHalfUp(Tail(toks))

C7_TotalIsHalfUpSum ==
    pc = "totalled" =>
        IF contents.t = "arr"
        THEN total = SumHalfUp(SelectSeq(MatchedTexts(contents.a, matches), TokenInRange))
        ELSE total = 0

(***************************************************************************)
(* C8  clean is idempotent: cleaning a cleaned line changes nothing.       *)
(***************************************************************************)
C8_CleanIdempotent == pc = "recleaned" => recleaned = cleaned

\* A line with separators and whitespace runs has been cleaned twice.
C8_Witness ==
    /\ pc = "recleaned"
    /\ line.t = "str"
    /\ \E i \in 1..Len(line.s) : line.s[i] \in {"|", "^", ","}
    /\ \E i \in 1..(Len(line.s) - 1) : IsWhitespace(line.s[i]) /\ IsWhitespace(line.s[i + 1])
    /\ cleaned # <<>>

(***************************************************************************)
(* C9  clean returns the line with each '|', '^' and ',' replaced by a     *)
(* space, whitespace runs collapsed to one space and the ends trimmed:     *)
(* the output is the input's fields (maximal runs of characters that are   *)
(* neither separator nor whitespace) joined by single spaces; it is empty  *)
(* for null or empty input; and the non-separator, non-whitespace          *)
(* characters of the output are those of the input, in the same order.     *)
(***************************************************************************)
IsSeparator(c) == c \in {"|", "^", ","}

IsContent(c) == ~IsSeparator(c) /\ ~IsWhitespace(c)

\* The fields of s, left to right; cur is the field being read.
RECURSIVE FieldsFrom(_, _, _)
FieldsFrom(s, i, cur) ==
    IF i > Len(s) THEN (IF cur = <<>> THEN <<>> ELSE <<cur>>)
    ELSE IF IsContent(s[i]) THEN FieldsFrom(s, i + 1, Append(cur, s[i]))
    ELSE (IF cur = <<>> THEN <<>> ELSE <<cur>>) \o FieldsFrom(s, i + 1, <<>>)

RECURSIVE JoinWithSpaces(_)
JoinWithSpaces(fields) ==
    IF fields = <<>> THEN <<>>
    ELSE IF Len(fields) = 1 THEN fields[1]
    ELSE fields[1] \o <<" ">> \o JoinWithSpaces(Tail(fields))

C9_CleanResult ==
    pc \in {"cleaned", "recleaned"} =>
        /\ line.t = "null" => cleaned = <<>>
        /\ line.t = "str" =>
            /\ cleaned = JoinWithSpaces(FieldsFrom(line.s, 1, <<>>))
            /\ SelectSeq(cleaned, IsContent) = SelectSeq(line.s, IsContent)
            /\ \A i \in 1..Len(cleaned) : ~IsSeparator(cleaned[i])
            /\ \A i \in 1..Len(cleaned) :
                   IsWhitespace(cleaned[i]) =>
                       /\ cleaned[i] = " "
                       /\ 1 < i /\ i < Len(cleaned)
                       /\ ~IsWhitespace(cleaned[i + 1])

\* A cleaned line of two fields that a separator alone kept apart.
C9_Witness ==
    /\ pc = "cleaned"
    /\ line.t = "str"
    /\ \E i \in 2..(Len(line.s) - 1) :
           /\ IsSeparator(line.s[i])
           /\ IsContent(line.s[i - 1])
           /\ IsContent(line.s[i + 1])
    /\ \E i \in 1..Len(cleaned) : cleaned[i] = " "


(***************************************************************************)
(* C10 as stated: both formatters return the zero currency string          *)
(* '₱0.00' for every null, empty or invalid amount, a non-empty string     *)
(* that does not parse to a number included.  The summary formatter        *)
(* formats the NaN it parsed.                                              *)
(***************************************************************************)
\* A string no number can be read from, whichever characters are stripped.
Unparseable(s) == ParseFloat(StripPesoAndCommas(s)).nan /\ ParseFloat(StripPesoCommasSpaces(s)).nan

InvalidAmount(v) ==
    \/ v.t = "null"
    \/ v.t = "num" /\ v.n.nan
    \/ v.t = "str" /\ (v.s = <<>> \/ Unparseable(v.s))

C10_InvalidAmountsFormatAsZero ==
    pc = "formatted" /\ InvalidAmount(amount) =>
        /\ tableText = <<"₱", "0", ".", "0", "0">>
        /\ summaryText = <<"₱", "0", ".", "0", "0">>


(***************************************************************************)
(* C11: the table's formatter keeps the number of fraction digits the      *)
(* amount string was written with: an amount written with n >= 1 fraction  *)
(* digits is rendered with exactly n decimal places.                       *)
(***************************************************************************)
Formatted == pc = "formatted"

\* The amount string written in s: s without its currency symbols, commas
\* and whitespace.
WrittenAmount(s) == SelectSeq(s, LAMBDA c : c \notin {"₱", ",", " "})

\* s is an optional sign, digits, a decimal point and n >= 1 digits.
WrittenWithFractionDigits(s, n) ==
    LET body == IF s # <<>> /\ s[1] = "-" THEN Tail(s) ELSE s
        k    == Len(body) - n
    IN  /\ n >= 1
        /\ k >= 1
        /\ body[k] = "."
        /\ \A i \in 1..Len(body) : i # k => IsDigit(body[i])

\* The text ends in a decimal point and n digits, and holds no other point.
RendersDecimalPlaces(text, n) ==
    LET k == Len(text) - n
    IN  /\ k >= 1
        /\ text[k] = "."
        /\ \A i \in 1..Len(text) : i # k => text[i] # "."
        /\ \A i \in (k + 1)..Len(text) : IsDigit(text[i])

StringForm(v) == IF v.t = "num" THEN NumberToString(v.n) ELSE v.s

\* The whole of s is one or more digits, a point, one or more digits.
DigitsPointDigits(s) ==
    \E k \in 2..(Len(s) - 1) :
        /\ s[k] = "."
        /\ \A i \in 1..Len(s) : i # k => s[i] \in {"0", "1", "2", "3", "4", "5", "6", "7", "8", "9"}

FirstSeen(type) ==
    CHOOSE k \in 1..Len(entries.a) :
        /\ BucketOf(entries.a[k]) = type
        /\ \A h \in 1..(k - 1) : BucketOf(entries.a[h]) # type

HasAmount(e) ==
    /\ e.amount.t # "null"
    /\ ~ParseFloat(WrittenAmount(StringForm(e.amount))).nan

NumberWithAmount(es) == Cardinality({i \in 1..Len(es) : HasAmount(es[i])})

C14_ProcessedCountsEveryAmount ==
    Rendered =>
        /\ summary.totalRows = Len(entries.a)
        /\ summary.amountCount = NumberWithAmount(entries.a)


(***************************************************************************)
(* C15: aggregating an empty record list is not an error; it yields zero   *)
(* total lines, zero processed lines, a grand total of 0 and no buckets.   *)
(***************************************************************************)
C15_EmptyListAggregatesToZero ==
    pc = "rendered" /\ entries = [t |-> "arr", a |-> <<>>] =>
        /\ summary = [t |-> "obj", totalRows |-> 0, amountCount |-> 0, totalAmount |-> 0]
        /\ paymentTotals.grandTotal = 0
        /\ paymentTotals.items = <<>>

\* The empty list has been aggregated, and a payment model chosen over it.
C15_Witness ==
    /\ pc = "rendered"
    /\ entries = [t |-> "arr", a |-> <<>>]
    /\ selectedModel = "BDO"
    /\ summary.t = "obj"


(***************************************************************************)
(* C16: the debounced search term changes only to the value the search     *)
(* box has held unchanged for the full 300 units; every change of the box  *)
(* cancels the update the previous change scheduled, so a burst of edits   *)
(* produces exactly one update, with the last value, and no intermediate   *)
(* value is published.                                                     *)
(***************************************************************************)
\* The box has been left alone for the whole window and no timeout is left.
WindowElapsed == quiet = DebounceDelay /\ timer = {}

C16_DebounceCoalescesBursts ==
    pc = "search" =>
        /\ Cardinality(timer) <= 1
        /\ setCalls <= 1
        /\ setCalls = 1 => (debouncedSearchTerm = searchTerm /\ quiet = DebounceDelay)
        /\ \A t \in timer : t.value = searchTerm /\ t.remaining = DebounceDelay - quiet
        /\ WindowElapsed => (setCalls = 1 /\ debouncedSearchTerm = searchTerm)

\* A burst of three edits has been published as one update.
C16_Witness ==
    /\ pc = "search"
    /\ burst = 3
    /\ setCalls = 1
    /\ debouncedSearchTerm = "ab"
    /\ WindowElapsed

(***************************************************************************)
(* C19 as stated: once the search box has stopped changing and the 300     *)
(* units have elapsed, the 'searching' indicator is false, also when the   *)
(* edits brought the text back to the value it had before the burst.  The  *)
(* effect that clears the indicator runs only when the debounced term      *)
(* changes.                                                                *)
(***************************************************************************)
C19_SearchingClearsAfterWindow ==
    pc = "search" /\ WindowElapsed => ~isSearching


(***************************************************************************)
(* C17: every upstream failure is surfaced: when the upload fails or       *)
(* returns no processing id, a status poll fails or reports 'error', or    *)
(* report generation fails, the error message becomes non-empty; for       *)
(* upload and polling failures the upload status becomes 'error' and no    *)
(* further poll is scheduled.                                              *)
(***************************************************************************)
Uploading == pc = "upload"

MessageShown == error.t = "str" /\ error.s # ""

\* The status requests and timeouts outstanding for the id.
Outstanding(id) == statusRequests[id] + Cardinality({t \in pollTimers : t.id = id})

UploadOrPollFailure ==
    {"uploadRejected", "uploadNoId", "statusError", "statusRejected", "statusNoData"}

C17_FailuresAreSurfaced ==
    Uploading =>
        /\ event.kind \in UploadOrPollFailure =>
               (MessageShown /\ uploadStatus = "error" /\ Outstanding(event.id) = 0)
        /\ event.kind \in {"reportRejected", "reportNoData"} => MessageShown

\* A poll that had been repeated has failed without an error text of the
\* service.
C17_Witness ==
    /\ Uploading
    /\ event.kind = "statusRejected"
    /\ answers[event.id] > 0
    /\ error.t = "str"
    /\ error.s = "Request failed"
    /\ uploadStatus = "error"

(***************************************************************************)
(* C18 as stated: under any interleaving of file selections and responses  *)
(* the stored processedData and rawContents come from the processing id    *)
(* of the file selected last, so status 'uploading' or 'processing'        *)
(* implies that both are null, and a report never pairs one file's data    *)
(* with another file's name.  The code lets a late 'completed' response    *)
(* for an earlier file overwrite the state.                                *)
(***************************************************************************)
C18_StateBelongsToLastFile ==
    Uploading =>
        /\ processedData \in {0, uploadedFile}
        /\ rawContents \in {0, uploadedFile}
        /\ uploadStatus \in {"uploading", "processing"} => (processedData = 0 /\ rawContents = 0)
        /\ \A r \in reportRequests :
               /\ r.processed_data = r.original_filename
               /\ r.raw_contents = r.original_filename

(***************************************************************************)
(* C20: polling an id sends the next status request 1000 units after each  *)
(* response that is neither 'completed' nor 'error', has at most one       *)
(* request or timeout outstanding per id, and stops for good on the first  *)
(* 'completed', 'error' or failed response; on 'completed' processedData,  *)
(* rawContents and separator are set from that response; and as the        *)
(* service ends up answering with a final status, the upload status        *)
(* eventually becomes 'completed' or 'error'.                              *)
(***************************************************************************)
PollingIsOrderly ==
    Uploading =>
        /\ \A id \in Ids : Outstanding(id) <= 1
        /\ \A id \in closed : Outstanding(id) = 0
        /\ \A t \in pollTimers : t.remaining + t.waited = PollInterval
        /\ event.kind = "polledAgain" => event.waited = PollInterval
        /\ event.kind = "statusPending" =>
               \E t \in pollTimers : t.id = event.id
        /\ event.kind = "statusCompleted" =>
               /\ processedData = event.id
               /\ rawContents = event.id
               /\ separator = event.id
               /\ uploadStatus = "completed"

C20_PollingRepeatsAndEnds ==
    /\ []PollingIsOrderly
    /\ (Uploading /\ uploadStatus = "processing")
           ~> (uploadStatus \in {"completed", "error"})

\* A poll that had been repeated has ended with 'completed'.
C20_Witness ==
    /\ Uploading
    /\ event.kind = "statusCompleted"
    /\ answers[event.id] > 0
    /\ uploadStatus = "completed"
    /\ processedData = event.id


(***************************************************************************)
(* C21 as stated: in the data table, after any sequence of page-button     *)
(* presses, search edits and replacements of the data, the current page    *)
(* is within 1..max(1, totalPages) of the filtered rows, so the slice      *)
(* shown is non-empty whenever there are filtered rows; every search edit  *)
(* resets the page to 1.  The code keeps the page when the data is         *)
(* replaced.                                                               *)
(***************************************************************************)
PagesOf(n) == IF n = 0 THEN 1 ELSE (n + rowsPerPage - 1) \div rowsPerPage

C21_PageWithinRange ==
    pc = "table" =>
        /\ currentPage >= 1
        /\ currentPage <= PagesOf(Len(filteredData))
        /\ filteredData # <<>> => CurrentData(filteredData, currentPage) # <<>>


(***************************************************************************)
(* C22: report generation is guarded and always released.  Without         *)
(* processedData or rawContents handleGenerateReport stores an error,      *)
(* sends no request and leaves generatingReport false; otherwise           *)
(* generatingReport is true exactly while the request is under way, and    *)
(* right after success or failure generatingReport is false and            *)
(* reportProgress is 0, the error null after success and a message after   *)
(* failure.                                                                *)
(***************************************************************************)
ReportGuarded ==
    \A pd \in 0..MaxFiles, rc \in 0..MaxFiles :
        LET started == GenerateReportStart(pd, rc, separator, uploadedFile, FALSE)
        IN  IF pd = 0 \/ rc = 0
            THEN /\ started.sent = {}
                 /\ started.error.t = "str" /\ started.error.s # ""
                 /\ ~started.generatingReport
            ELSE /\ Cardinality(started.sent) = 1
                 /\ started.generatingReport
                 /\ started.error = JsNull

C22_ReportGuardedAndReleased ==
    Uploading =>
        /\ ReportGuarded
        /\ generatingReport <=> reportRequests # {}
        /\ Cardinality(reportRequests) <= 1
        /\ \A r \in reportRequests : r.processed_data # 0 /\ r.raw_contents # 0
        /\ ~generatingReport => reportProgress = 0
        /\ event.kind = "reportReceived" =>
               ~generatingReport /\ reportProgress = 0 /\ error = JsNull
        /\ event.kind \in {"reportRejected", "reportNoData"} =>
               ~generatingReport /\ reportProgress = 0 /\ MessageShown

\* A report that failed, its data still at hand.
C22_Witness ==
    /\ Uploading
    /\ event.kind \in {"reportRejected", "reportNoData"}
    /\ ~generatingReport
    /\ reportProgress = 0
    /\ MessageShown
    /\ processedData # 0

=============================================================================
